---- MODULE Spec2Model ----
(***************************************************************************)
(* Model of src/app/page.tsx: a review journal over a reactive entity      *)
(* store, in its two layouts.                                              *)
(*                                                                         *)
(*   minimal layout   (page.tsx lines 1-348):   App, ReadView, ReviewEntry,*)
(*                                              WriteView                  *)
(*   dashboard layout (page.tsx lines 350-655): App, AddReviewCard,        *)
(*                                              ReviewItem                 *)
(*                                                                         *)
(* React component state is modelled as it behaves: a component's useState *)
(* value is initialised when the component MOUNTS and lives until it       *)
(* unmounts.  ReviewEntry / ReviewItem are keyed by review.id, so the edit *)
(* buffer of a review exists exactly while that review is rendered.        *)
(***************************************************************************)
EXTENDS Integers, Sequences, FiniteSets, TLC

VARIABLES
    layout,           \* which of the two App components is running
    reviews,          \* data.reviews: the latest snapshot of the live query
    pending,          \* writes handed to db.transact and not yet settled
    nextId,           \* how many ids id() has generated
    clock,            \* the last value Date.now() returned
    view,             \* minimal App: "read" | "write"
    editingId,        \* minimal App: id of the review in edit mode, or NULL
    step,             \* WriteView: "section" | "content"
    selectedSection,  \* WriteView: SectionId or NULL
    activeSection,    \* dashboard App: the active section tab
    editingReview,    \* dashboard App: the review in edit mode (its id), or NULL
    title,            \* WriteView / AddReviewCard: title buffer
    content,          \* WriteView / AddReviewCard: content buffer
    buf,              \* mounted ReviewEntry / ReviewItem id -> [editTitle, editContent]
    ev                \* the last event: [op, id, from]

vars == <<layout, reviews, pending, nextId, clock, view, editingId, step,
          selectedSection, activeSection, editingReview, title, content, buf, ev>>

minimalVars   == <<view, editingId, step, selectedSection>>
dashboardVars == <<activeSection, editingReview>>
storeVars     == <<reviews, pending, nextId, clock>>

(***************************************************************************)
(* Bounds                                                                  *)
(***************************************************************************)
MaxIds     == 2    \* ids generated by id() in one run
MaxLoaded  == 2    \* reviews in the collection when the app starts
MaxPending == 1    \* writes in flight at once
MaxTime    == 2    \* largest value of Date.now()
MaxInput   == 3    \* reviews in a snapshot handed to the projections

NULL == "null"

(***************************************************************************)
(* Texts: strings are sequences of characters.  The inputs typed into a    *)
(* field are a whitespace-only string and a word with whitespace around    *)
(* it; a field the user has not touched is empty (composer) or holds a     *)
(* persisted text (edit buffer).  A typed title changes the persisted      *)
(* title; a typed content trims to the content the loaded reviews hold.    *)
(***************************************************************************)
Empty == << >>
TitleInputs   == { <<" ">>, <<" ", "b", " ">> }
ContentInputs == { <<" ">>, <<" ", "a", " ">> }

\* what the reviews loaded at start hold
Loaded == <<"a">>

IsWhitespace(c) == c = " "

RECURSIVE TrimStart(_)
TrimStart(s) ==
    IF s = << >> THEN s
    ELSE IF IsWhitespace(Head(s)) THEN TrimStart(Tail(s)) ELSE s

RECURSIVE TrimEnd(_)
TrimEnd(s) ==
    IF s = << >> THEN s
    ELSE IF IsWhitespace(s[Len(s)]) THEN TrimEnd(SubSeq(s, 1, Len(s) - 1)) ELSE s

\* String.prototype.trim
Trim(s) == TrimEnd(TrimStart(s))

\* !s.trim(): the empty string is the only falsy string
Blank(s) == Trim(s) = << >>

\* texts another client running the same program can have persisted
Persistable(inputs) == ({ Trim(t) : t \in inputs } \cup {Loaded}) \ { << >> }

(***************************************************************************)
(* Sections                                                                *)
(***************************************************************************)
SECTIONS == <<"growing-instant", "planning-wedding", "best-shape">>

SectionId == { SECTIONS[i] : i \in 1..Len(SECTIONS) }

(***************************************************************************)
(* The entity store.  A review is [id, title, content, section, createdAt];*)
(* an attribute that was never written is NULL (section) or 0 (createdAt). *)
(* A write is one transaction step on reviews[id]: an update carrying the  *)
(* attributes named in `fields`, or a delete.                              *)
(***************************************************************************)
Ids(rs) == { rs[i].id : i \in 1..Len(rs) }

Find(rs, i) == rs[CHOOSE k \in 1..Len(rs) : rs[k].id = i]

Persisted(rs, i) == [editTitle |-> Find(rs, i).title, editContent |-> Find(rs, i).content]

\* mutant: the identifier is generated once and used for every create
NewId_once == ToString(1)

\* id(): a fresh identifier
NewId == ToString(nextId + 1)

UpdateTitleContent(i, t, c) ==
    [op |-> "update", id |-> i, fields |-> {"title", "content"},
     title |-> t, content |-> c, section |-> NULL, createdAt |-> 0]

CreateWrite(i, t, c, s, ts) ==
    [op |-> "update", id |-> i, fields |-> {"title", "content", "section", "createdAt"},
     title |-> t, content |-> c, section |-> s, createdAt |-> ts]

DeleteWrite(i) ==
    [op |-> "delete", id |-> i, fields |-> {},
     title |-> Empty, content |-> Empty, section |-> NULL, createdAt |-> 0]

\* order: { createdAt: "desc" }
Descending(rs) == \A k \in 1..(Len(rs) - 1) : rs[k].createdAt >= rs[k + 1].createdAt

InsertAt(rs, p, r) == SubSeq(rs, 1, p - 1) \o <<r>> \o SubSeq(rs, p, Len(rs))

Remove(rs, i) == SelectSeq(rs, LAMBDA r : r.id # i)

Merge(r, w) ==
    [id        |-> r.id,
     title     |-> IF "title" \in w.fields THEN w.title ELSE r.title,
     content   |-> IF "content" \in w.fields THEN w.content ELSE r.content,
     section   |-> IF "section" \in w.fields THEN w.section ELSE r.section,
     createdAt |-> IF "createdAt" \in w.fields THEN w.createdAt ELSE r.createdAt]

Blankrecord(i) ==
    [id |-> i, title |-> Empty, content |-> Empty, section |-> NULL, createdAt |-> 0]

\* The snapshots the query can deliver once write w has reached the store:
\* update merges the attributes into reviews[id], creating it when absent;
\* the order among equal createdAt is the store's choice.
Applied(rs, w) ==
    IF w.op = "delete" THEN { Remove(rs, w.id) }
    ELSE IF w.id \in Ids(rs) /\ "createdAt" \notin w.fields
         THEN { [k \in 1..Len(rs) |-> IF rs[k].id = w.id THEN Merge(rs[k], w) ELSE rs[k]] }
         ELSE LET base == Remove(rs, w.id)
                  old  == IF w.id \in Ids(rs) THEN Find(rs, w.id) ELSE Blankrecord(w.id)
                  new  == Merge(old, w)
              IN { InsertAt(base, p, new) : p \in { q \in 1..(Len(base) + 1) :
                                                     Descending(InsertAt(base, q, new)) } }

(***************************************************************************)
(* Rendering: which ReviewEntry / ReviewItem components are mounted.       *)
(***************************************************************************)
\* ReadView: reviews.reduce((acc, review) => ..., {}): acc maps a section to
\* the reviews pushed under it, a key being added when first seen
\* mutant: the review is put at the front of its section's list
RECURSIVE reduce_unshift(_, _)
reduce_unshift(rs, acc) ==
    IF rs = << >> THEN acc
    ELSE LET review  == Head(rs)
             section == review.section
             acc1    == IF section \in DOMAIN acc THEN acc
                        ELSE [k \in DOMAIN acc \cup {section} |->
                                 IF k = section THEN << >> ELSE acc[k]]
         IN reduce_unshift(Tail(rs), [acc1 EXCEPT ![section] = <<review>> \o @])

RECURSIVE reduce(_, _)
reduce(rs, acc) ==
    IF rs = << >> THEN acc
    ELSE LET review  == Head(rs)
             section == review.section
             acc1    == IF section \in DOMAIN acc THEN acc
                        ELSE [k \in DOMAIN acc \cup {section} |->
                                 IF k = section THEN << >> ELSE acc[k]]
         IN reduce(Tail(rs), [acc1 EXCEPT ![section] = Append(@, review)])

groupedBySection(rs) == reduce(rs, [k \in {} |-> << >>])

\* ReadView: the groups rendered, one per key of SECTIONS that has reviews
RenderedSections(rs) ==
    IF Len(rs) = 0 THEN {}
    ELSE { s \in SectionId : s \in DOMAIN groupedBySection(rs)
                              /\ Len(groupedBySection(rs)[s]) # 0 }

\* Array.prototype.filter with the callback (r) => r.section === activeSection:
\* the elements are visited in order and the ones that pass are kept
RECURSIVE filter(_, _)
filter(rs, s) ==
    IF rs = << >> THEN << >>
    ELSE IF Head(rs).section = s THEN <<Head(rs)>> \o filter(Tail(rs), s)
         ELSE filter(Tail(rs), s)

\* mutant: the section's reviews are listed oldest first
sectionReviews_oldestFirst(rs, s) ==
    [k \in 1..Len(filter(rs, s)) |-> filter(rs, s)[Len(filter(rs, s)) + 1 - k]]

\* dashboard App: sectionReviews
sectionReviews(rs, s) == filter(rs, s)

Displayed(lay, v, act, rs) ==
    IF lay = "minimal"
    THEN IF v = "read"
         THEN UNION { Ids(groupedBySection(rs)[s]) : s \in RenderedSections(rs) }
         ELSE {}
    ELSE Ids(sectionReviews(rs, act))

\* mutant: the edit fields follow the review's persisted values on every render
Render_live(old, shown, rs) == [i \in shown |-> Persisted(rs, i)]

\* useState(review.title) / useState(review.content): a component that stays
\* mounted keeps its state, a component that mounts takes the review's values
Render(old, shown, rs) ==
    [i \in shown |-> IF i \in DOMAIN old THEN old[i] ELSE Persisted(rs, i)]

Mounted == DOMAIN buf

\* mutant: every entry is told it is editing whenever an edit is open
isEditing_anyOpen(i) ==
    (IF layout = "minimal" THEN editingId ELSE editingReview) # NULL

\* isEditing={editingId === review.id} / isEditing={editingReview?.id === review.id}
isEditing(i) ==
    IF layout = "minimal" THEN editingId = i ELSE editingReview = i

Editing == IF layout = "minimal" THEN editingId ELSE editingReview

\* the last event: what was done, to which review, and (for begin-edit and
\* delete) which review was in edit mode when it was done
Event(o, i, f) == [op |-> o, id |-> i, from |-> f]

(***************************************************************************)
(* Initial state: one of the layouts, an empty collection                  *)
(***************************************************************************)
Init ==
    /\ layout \in {"minimal", "dashboard"}
    /\ reviews = << >>
    /\ pending = << >>
    /\ nextId = 0
    /\ clock = 1
    /\ view = "read"
    /\ editingId = NULL
    /\ step = "section"
    /\ selectedSection = NULL
    /\ activeSection = "growing-instant"
    /\ editingReview = NULL
    /\ title = Empty
    /\ content = Empty
    /\ buf = Render(<< >>, {}, << >>)
    /\ ev = Event("init", NULL, NULL)

(***************************************************************************)
(* Minimal layout: App                                                     *)
(***************************************************************************)
\* setView("read") / setView("write"), and WriteView's onComplete.  ReadView
\* and WriteView replace each other: the one that goes loses its state, the
\* one that comes mounts with its initial state.
setView(v) ==
    /\ layout = "minimal"
    /\ view' = v
    /\ IF v = view
       THEN UNCHANGED <<step, selectedSection, title, content>>
       ELSE /\ step' = "section"
            /\ selectedSection' = NULL
            /\ title' = Empty
            /\ content' = Empty
    /\ buf' = Render(buf, Displayed(layout, v, activeSection, reviews), reviews)
    /\ ev' = Event("setView", NULL, NULL)
    /\ UNCHANGED <<layout, editingId, storeVars, dashboardVars>>

(***************************************************************************)
(* Minimal layout: ReviewEntry                                             *)
(***************************************************************************)
\* mutant: a click on a second entry is ignored while an edit is open
ReviewEntry_onEdit_whenIdle(i) ==
    /\ layout = "minimal"
    /\ i \in Mounted
    /\ ~isEditing(i)
    /\ editingId' = IF editingId = NULL THEN i ELSE editingId
    /\ ev' = Event("beginEdit", i, Editing)
    /\ UNCHANGED <<layout, storeVars, view, step, selectedSection, dashboardVars,
                   title, content, buf>>

\* <article onClick={onEdit}> of the read rendering: setEditingId(review.id)
ReviewEntry_onEdit(i) ==
    /\ layout = "minimal"
    /\ i \in Mounted
    /\ ~isEditing(i)
    /\ editingId' = i
    /\ ev' = Event("beginEdit", i, Editing)
    /\ UNCHANGED <<layout, storeVars, view, step, selectedSection, dashboardVars,
                   title, content, buf>>

\* onChange of the title input / the content textarea of the edit rendering
ReviewEntry_setEditTitle(i, t) ==
    /\ layout = "minimal"
    /\ i \in Mounted
    /\ isEditing(i)
    /\ buf' = [buf EXCEPT ![i].editTitle = t]
    /\ ev' = Event("editField", i, NULL)
    /\ UNCHANGED <<layout, storeVars, minimalVars, dashboardVars, title, content>>

ReviewEntry_setEditContent(i, c) ==
    /\ layout = "minimal"
    /\ i \in Mounted
    /\ isEditing(i)
    /\ buf' = [buf EXCEPT ![i].editContent = c]
    /\ ev' = Event("editField", i, NULL)
    /\ UNCHANGED <<layout, storeVars, minimalVars, dashboardVars, title, content>>

\* mutant: the guard forgets the content
SaveRejected_titleOnly(t, c) == Blank(t)

\* the guard of handleSave: if (!editTitle.trim() || !editContent.trim()) return
SaveRejected(t, c) == Blank(t) \/ Blank(c)

\* mutant: the buffers are written as typed
SaveWrite_untrimmed(i, t, c) == UpdateTitleContent(i, t, c)

\* the transaction of handleSave
SaveWrite(i, t, c) == UpdateTitleContent(i, Trim(t), Trim(c))

ReviewEntry_handleSave(i) ==
    /\ layout = "minimal"
    /\ i \in Mounted
    /\ isEditing(i)
    /\ IF SaveRejected(buf[i].editTitle, buf[i].editContent)
       THEN UNCHANGED <<pending, editingId>>
       ELSE /\ Len(pending) < MaxPending
            /\ pending' = Append(pending, SaveWrite(i, buf[i].editTitle, buf[i].editContent))
            /\ editingId' = NULL
    /\ ev' = Event("commit", i, NULL)
    /\ UNCHANGED <<layout, reviews, nextId, clock, view, step, selectedSection,
                   dashboardVars, title, content, buf>>

\* Cancel button: onClick={onClose}
ReviewEntry_onClose(i) ==
    /\ layout = "minimal"
    /\ i \in Mounted
    /\ isEditing(i)
    /\ editingId' = NULL
    /\ ev' = Event("cancel", i, NULL)
    /\ UNCHANGED <<layout, storeVars, view, step, selectedSection, dashboardVars,
                   title, content, buf>>

\* mutant: the delete does not close the editor
ReviewEntry_handleDelete_staysOpen(i) ==
    /\ layout = "minimal"
    /\ i \in Mounted
    /\ isEditing(i)
    /\ Len(pending) < MaxPending
    /\ pending' = Append(pending, DeleteWrite(i))
    /\ ev' = Event("delete", i, Editing)
    /\ UNCHANGED <<layout, reviews, nextId, clock, minimalVars, dashboardVars,
                   title, content, buf>>

\* Delete button of the edit rendering
ReviewEntry_handleDelete(i) ==
    /\ layout = "minimal"
    /\ i \in Mounted
    /\ isEditing(i)
    /\ Len(pending) < MaxPending
    /\ pending' = Append(pending, DeleteWrite(i))
    /\ editingId' = NULL
    /\ ev' = Event("delete", i, Editing)
    /\ UNCHANGED <<layout, reviews, nextId, clock, view, step, selectedSection,
                   dashboardVars, title, content, buf>>

(***************************************************************************)
(* Minimal layout: WriteView                                               *)
(***************************************************************************)
\* a section button: setSelectedSection(sectionId); setStep("content")
\* mutant: the section button only moves on to the details stage
WriteView_chooseSection_stepOnly(s) ==
    /\ layout = "minimal"
    /\ view = "write"
    /\ step = "section"
    /\ step' = "content"
    /\ ev' = Event("chooseSection", NULL, NULL)
    /\ UNCHANGED <<layout, storeVars, view, editingId, dashboardVars, title, content,
                   buf, selectedSection>>

WriteView_chooseSection(s) ==
    /\ layout = "minimal"
    /\ view = "write"
    /\ step = "section"
    /\ selectedSection' = s
    /\ step' = "content"
    /\ ev' = Event("chooseSection", NULL, NULL)
    /\ UNCHANGED <<layout, storeVars, view, editingId, dashboardVars, title, content, buf>>

\* mutant: going back empties the fields
WriteView_back_clears ==
    /\ layout = "minimal"
    /\ view = "write"
    /\ step = "content"
    /\ step' = "section"
    /\ title' = Empty
    /\ content' = Empty
    /\ ev' = Event("back", NULL, NULL)
    /\ UNCHANGED <<layout, storeVars, view, editingId, selectedSection, dashboardVars, buf>>

\* Back button: setStep("section")
WriteView_back ==
    /\ layout = "minimal"
    /\ view = "write"
    /\ step = "content"
    /\ step' = "section"
    /\ ev' = Event("back", NULL, NULL)
    /\ UNCHANGED <<layout, storeVars, view, editingId, selectedSection, dashboardVars,
                   title, content, buf>>

WriteView_setTitle(t) ==
    /\ layout = "minimal"
    /\ view = "write"
    /\ step = "content"
    /\ title' = t
    /\ ev' = Event("composerEditField", NULL, NULL)
    /\ UNCHANGED <<layout, storeVars, minimalVars, dashboardVars, content, buf>>

WriteView_setContent(c) ==
    /\ layout = "minimal"
    /\ view = "write"
    /\ step = "content"
    /\ content' = c
    /\ ev' = Event("composerEditField", NULL, NULL)
    /\ UNCHANGED <<layout, storeVars, minimalVars, dashboardVars, title, buf>>

\* mutant: the guard tests the fields without trimming them
WriteView_submitRejected_untrimmed(s, t, c) == s = NULL \/ t = Empty \/ c = Empty

\* the guard of WriteView.handleSubmit:
\* if (!selectedSection || !title.trim() || !content.trim()) return
WriteView_submitRejected(s, t, c) == s = NULL \/ Blank(t) \/ Blank(c)

\* mutant: the fields are written as typed
SubmitWrite_untrimmed(i, t, c, s, ts) == CreateWrite(i, t, c, s, ts)

\* the transaction of handleSubmit (both layouts)
SubmitWrite(i, t, c, s, ts) == CreateWrite(i, Trim(t), Trim(c), s, ts)

\* Date.now(): the clock does not run backwards
Now == { ts \in {clock, clock + 1} : ts <= MaxTime }

\* Save Review button.  The handler is modelled for every state of the form:
\* its own guard, not the button's disabled attribute, decides what it does.
WriteView_handleSubmit ==
    /\ layout = "minimal"
    /\ view = "write"
    /\ step = "content"
    /\ IF WriteView_submitRejected(selectedSection, title, content)
       THEN UNCHANGED <<pending, nextId, clock, title, content, selectedSection,
                        step, view, buf>>
       ELSE /\ Len(pending) < MaxPending
            /\ nextId < MaxIds
            /\ \E ts \in Now :
                  /\ pending' = Append(pending,
                                       SubmitWrite(NewId, title, content, selectedSection, ts))
                  /\ clock' = ts
            /\ nextId' = nextId + 1
            /\ title' = Empty
            /\ content' = Empty
            /\ selectedSection' = NULL
            /\ step' = "section"
            \* onComplete(): setView("read")
            /\ view' = "read"
            /\ buf' = Render(buf, Displayed(layout, "read", activeSection, reviews), reviews)
    /\ ev' = Event("submit", NULL, NULL)
    /\ UNCHANGED <<layout, reviews, editingId, dashboardVars>>

(***************************************************************************)
(* Dashboard layout: App                                                   *)
(***************************************************************************)
\* a section tab: setActiveSection(section.id).  The ReviewItems of the old
\* tab unmount, those of the new tab mount; AddReviewCard stays mounted.
\* mutant: the add form is mounted anew for the selected section
setActiveSection_resetsForm(s) ==
    /\ layout = "dashboard"
    /\ activeSection' = s
    /\ title' = Empty
    /\ content' = Empty
    /\ buf' = Render(buf, Displayed(layout, view, s, reviews), reviews)
    /\ ev' = Event("selectSection", NULL, NULL)
    /\ UNCHANGED <<layout, storeVars, minimalVars, editingReview>>

setActiveSection(s) ==
    /\ layout = "dashboard"
    /\ activeSection' = s
    /\ buf' = Render(buf, Displayed(layout, view, s, reviews), reviews)
    /\ ev' = Event("selectSection", NULL, NULL)
    /\ UNCHANGED <<layout, storeVars, minimalVars, editingReview, title, content>>

(***************************************************************************)
(* Dashboard layout: ReviewItem                                            *)
(***************************************************************************)
\* Edit button of the read rendering: setEditingReview(review)
ReviewItem_onEdit(i) ==
    /\ layout = "dashboard"
    /\ i \in Mounted
    /\ ~isEditing(i)
    /\ editingReview' = i
    /\ ev' = Event("beginEdit", i, Editing)
    /\ UNCHANGED <<layout, storeVars, minimalVars, activeSection, title, content, buf>>

ReviewItem_setEditTitle(i, t) ==
    /\ layout = "dashboard"
    /\ i \in Mounted
    /\ isEditing(i)
    /\ buf' = [buf EXCEPT ![i].editTitle = t]
    /\ ev' = Event("editField", i, NULL)
    /\ UNCHANGED <<layout, storeVars, minimalVars, dashboardVars, title, content>>

ReviewItem_setEditContent(i, c) ==
    /\ layout = "dashboard"
    /\ i \in Mounted
    /\ isEditing(i)
    /\ buf' = [buf EXCEPT ![i].editContent = c]
    /\ ev' = Event("editField", i, NULL)
    /\ UNCHANGED <<layout, storeVars, minimalVars, dashboardVars, title, content>>

\* Save button: handleSave, then onSaveEdit: setEditingReview(null)
ReviewItem_handleSave(i) ==
    /\ layout = "dashboard"
    /\ i \in Mounted
    /\ isEditing(i)
    /\ IF SaveRejected(buf[i].editTitle, buf[i].editContent)
       THEN UNCHANGED <<pending, editingReview>>
       ELSE /\ Len(pending) < MaxPending
            /\ pending' = Append(pending, SaveWrite(i, buf[i].editTitle, buf[i].editContent))
            /\ editingReview' = NULL
    /\ ev' = Event("commit", i, NULL)
    /\ UNCHANGED <<layout, reviews, nextId, clock, minimalVars, activeSection,
                   title, content, buf>>

\* Cancel button: onCancelEdit: setEditingReview(null)
ReviewItem_onCancelEdit(i) ==
    /\ layout = "dashboard"
    /\ i \in Mounted
    /\ isEditing(i)
    /\ editingReview' = NULL
    /\ ev' = Event("cancel", i, NULL)
    /\ UNCHANGED <<layout, storeVars, minimalVars, activeSection, title, content, buf>>

\* Delete button of the read rendering: the edit rendering has none
ReviewItem_handleDelete(i) ==
    /\ layout = "dashboard"
    /\ i \in Mounted
    /\ ~isEditing(i)
    /\ Len(pending) < MaxPending
    /\ pending' = Append(pending, DeleteWrite(i))
    /\ ev' = Event("delete", i, Editing)
    /\ UNCHANGED <<layout, reviews, nextId, clock, minimalVars, dashboardVars,
                   title, content, buf>>

(***************************************************************************)
(* Dashboard layout: AddReviewCard                                         *)
(***************************************************************************)
AddReviewCard_setTitle(t) ==
    /\ layout = "dashboard"
    /\ title' = t
    /\ ev' = Event("composerEditField", NULL, NULL)
    /\ UNCHANGED <<layout, storeVars, minimalVars, dashboardVars, content, buf>>

AddReviewCard_setContent(c) ==
    /\ layout = "dashboard"
    /\ content' = c
    /\ ev' = Event("composerEditField", NULL, NULL)
    /\ UNCHANGED <<layout, storeVars, minimalVars, dashboardVars, title, buf>>

\* the guard of AddReviewCard.handleSubmit:
\* if (!title.trim() || !content.trim()) return
AddReviewCard_submitRejected(t, c) == Blank(t) \/ Blank(c)

\* the form's onSubmit; section is the prop section={activeSection}
\* mutant: the form keeps what was typed when it hands the write over
AddReviewCard_handleSubmit_keepsFields ==
    /\ layout = "dashboard"
    /\ IF AddReviewCard_submitRejected(title, content)
       THEN UNCHANGED <<pending, nextId, clock>>
       ELSE /\ Len(pending) < MaxPending
            /\ nextId < MaxIds
            /\ \E ts \in Now :
                  /\ pending' = Append(pending,
                                       SubmitWrite(NewId, title, content, activeSection, ts))
                  /\ clock' = ts
            /\ nextId' = nextId + 1
    /\ ev' = Event("submit", NULL, NULL)
    /\ UNCHANGED <<layout, reviews, minimalVars, dashboardVars, buf, title, content>>

AddReviewCard_handleSubmit ==
    /\ layout = "dashboard"
    /\ IF AddReviewCard_submitRejected(title, content)
       THEN UNCHANGED <<pending, nextId, clock, title, content>>
       ELSE /\ Len(pending) < MaxPending
            /\ nextId < MaxIds
            /\ \E ts \in Now :
                  /\ pending' = Append(pending,
                                       SubmitWrite(NewId, title, content, activeSection, ts))
                  /\ clock' = ts
            /\ nextId' = nextId + 1
            /\ title' = Empty
            /\ content' = Empty
    /\ ev' = Event("submit", NULL, NULL)
    /\ UNCHANGED <<layout, reviews, minimalVars, dashboardVars, buf>>

(***************************************************************************)
(* The entity store and the live query                                     *)
(***************************************************************************)
\* the oldest write in flight reaches the store; the query delivers the new
\* snapshot and the app renders it
StoreApply ==
    /\ pending # << >>
    /\ \E rs \in Applied(reviews, Head(pending)) :
          /\ reviews' = rs
          /\ buf' = Render(buf, Displayed(layout, view, activeSection, rs), rs)
    /\ pending' = Tail(pending)
    /\ ev' = Event("applied", Head(pending).id, NULL)
    /\ UNCHANGED <<layout, nextId, clock, minimalVars, dashboardVars, title, content>>

\* the oldest write in flight fails: nothing the app holds changes
StoreReject ==
    /\ pending # << >>
    /\ pending' = Tail(pending)
    /\ ev' = Event("rejected", Head(pending).id, NULL)
    /\ UNCHANGED <<layout, reviews, nextId, clock, minimalVars, dashboardVars,
                   title, content, buf>>

\* another client of the same store saves an edit of review i or deletes it;
\* the query delivers the new snapshot
ExternalChange(w) ==
    /\ w.id \in Ids(reviews)
    /\ \E rs \in Applied(reviews, w) :
          /\ rs # reviews
          /\ reviews' = rs
          /\ buf' = Render(buf, Displayed(layout, view, activeSection, rs), rs)
    /\ ev' = Event("snapshot", w.id, NULL)
    /\ UNCHANGED <<layout, pending, nextId, clock, minimalVars, dashboardVars,
                   title, content>>

ExternalWrites ==
    { UpdateTitleContent(i, t, c) : i \in Ids(reviews), t \in Persistable(TitleInputs),
                                  c \in Persistable(ContentInputs) }
    \cup { DeleteWrite(i) : i \in Ids(reviews) }

(***************************************************************************)
(* The app started on a collection that already holds reviews: MaxLoaded   *)
(* reviews created earlier, newest first, the first in the first section   *)
(* and each later one in any section.                                     *)
(***************************************************************************)
LoadedReview(n, s) ==
    [id |-> ToString(n), title |-> Loaded, content |-> Loaded, section |-> s,
     createdAt |-> MaxLoaded + 1 - n]

LoadedStores ==
    { [n \in 1..MaxLoaded |-> LoadedReview(n, f[n])] :
        f \in { g \in [1..MaxLoaded -> SectionId] : g[1] = SECTIONS[1] } }

InitLoaded ==
    /\ layout \in {"minimal", "dashboard"}
    /\ reviews \in LoadedStores
    /\ pending = << >>
    /\ nextId = MaxLoaded
    /\ clock = MaxLoaded
    /\ view = "read"
    /\ editingId = NULL
    /\ step = "section"
    /\ selectedSection = NULL
    /\ activeSection = "growing-instant"
    /\ editingReview = NULL
    /\ title = Empty
    /\ content = Empty
    /\ buf = Render(<< >>, Displayed(layout, view, activeSection, reviews), reviews)
    /\ ev = Event("init", NULL, NULL)

(***************************************************************************)
(* Specifications                                                          *)
(***************************************************************************)
\* the review list and its edit state: begin-edit, edit-field, cancel,
\* commit, delete, view and tab selection, writes settling, snapshots
NextEdit ==
    \/ \E v \in {"read", "write"} : setView(v)
    \/ \E i \in Mounted : ReviewEntry_onEdit(i)
    \/ \E i \in Mounted, t \in TitleInputs : ReviewEntry_setEditTitle(i, t)
    \/ \E i \in Mounted, c \in ContentInputs : ReviewEntry_setEditContent(i, c)
    \/ \E i \in Mounted : ReviewEntry_handleSave(i)
    \/ \E i \in Mounted : ReviewEntry_onClose(i)
    \/ \E i \in Mounted : ReviewEntry_handleDelete(i)
    \/ \E s \in SectionId : setActiveSection(s)
    \/ \E i \in Mounted : ReviewItem_onEdit(i)
    \/ \E i \in Mounted, t \in TitleInputs : ReviewItem_setEditTitle(i, t)
    \/ \E i \in Mounted, c \in ContentInputs : ReviewItem_setEditContent(i, c)
    \/ \E i \in Mounted : ReviewItem_handleSave(i)
    \/ \E i \in Mounted : ReviewItem_onCancelEdit(i)
    \/ \E i \in Mounted : ReviewItem_handleDelete(i)
    \/ StoreApply
    \/ StoreReject
    \/ \E w \in ExternalWrites : ExternalChange(w)

SpecEdit == InitLoaded /\ [][NextEdit]_vars

\* the composer: section choice, fields, back, submit, writes settling
NextCompose ==
    \/ \E v \in {"read", "write"} : setView(v)
    \/ \E s \in SectionId : WriteView_chooseSection(s)
    \/ WriteView_back
    \/ \E t \in TitleInputs : WriteView_setTitle(t)
    \/ \E c \in ContentInputs : WriteView_setContent(c)
    \/ WriteView_handleSubmit
    \/ \E s \in SectionId : setActiveSection(s)
    \/ \E t \in TitleInputs : AddReviewCard_setTitle(t)
    \/ \E c \in ContentInputs : AddReviewCard_setContent(c)
    \/ AddReviewCard_handleSubmit
    \/ StoreApply
    \/ StoreReject

SpecCompose == Init /\ [][NextCompose]_vars

\* every handler that issues a write, with what leads to it: the composer's
\* submit, begin-edit, the edit fields, commit and delete, writes settling
NextWrites ==
    \/ \E v \in {"read", "write"} : setView(v)
    \/ \E s \in SectionId : WriteView_chooseSection(s)
    \/ \E t \in TitleInputs : WriteView_setTitle(t)
    \/ \E c \in ContentInputs : WriteView_setContent(c)
    \/ WriteView_handleSubmit
    \/ \E i \in Mounted : ReviewEntry_onEdit(i)
    \/ \E i \in Mounted, t \in TitleInputs : ReviewEntry_setEditTitle(i, t)
    \/ \E i \in Mounted, c \in ContentInputs : ReviewEntry_setEditContent(i, c)
    \/ \E i \in Mounted : ReviewEntry_handleSave(i)
    \/ \E i \in Mounted : ReviewEntry_handleDelete(i)
    \/ \E t \in TitleInputs : AddReviewCard_setTitle(t)
    \/ \E c \in ContentInputs : AddReviewCard_setContent(c)
    \/ AddReviewCard_handleSubmit
    \/ \E i \in Mounted : ReviewItem_onEdit(i)
    \/ \E i \in Mounted, t \in TitleInputs : ReviewItem_setEditTitle(i, t)
    \/ \E i \in Mounted, c \in ContentInputs : ReviewItem_setEditContent(i, c)
    \/ \E i \in Mounted : ReviewItem_handleSave(i)
    \/ \E i \in Mounted : ReviewItem_handleDelete(i)
    \/ StoreApply

SpecWrites == Init /\ [][NextWrites]_vars

\* the projections over arbitrary snapshots: the query delivers any
\* collection of at most MaxInput reviews, and the view or tab is chosen
Snapshots ==
    UNION { { rs \in [1..n -> [id : {"x"}, title : {Loaded}, content : {Loaded},
                               section : SectionId, createdAt : 1..MaxTime]
                              \cup {Blankrecord("x")}] :
                Descending(rs) } : n \in 0..MaxInput }

\* the reviews of a snapshot carry distinct ids
Identified(rs) == [k \in 1..Len(rs) |-> [rs[k] EXCEPT !.id = ToString(k)]]

InitProject ==
    /\ layout \in {"minimal", "dashboard"}
    /\ \E rs \in Snapshots : reviews = Identified(rs)
    /\ pending = << >>
    /\ nextId = MaxInput
    /\ clock = MaxTime
    /\ view = "read"
    /\ editingId = NULL
    /\ step = "section"
    /\ selectedSection = NULL
    /\ activeSection = "growing-instant"
    /\ editingReview = NULL
    /\ title = Empty
    /\ content = Empty
    /\ buf = Render(<< >>, Displayed(layout, view, activeSection, reviews), reviews)
    /\ ev = Event("init", NULL, NULL)

\* the live query delivers snapshot rs and the app renders it
useQuery(rs) ==
    /\ rs # reviews
    /\ reviews' = rs
    /\ buf' = Render(buf, Displayed(layout, view, activeSection, rs), rs)
    /\ ev' = Event("snapshot", NULL, NULL)
    /\ UNCHANGED <<layout, pending, nextId, clock, minimalVars, dashboardVars,
                   title, content>>

NextProject ==
    \/ \E rs \in Snapshots : useQuery(Identified(rs))
    \/ \E v \in {"read", "write"} : setView(v)
    \/ \E s \in SectionId : setActiveSection(s)

SpecProject == InitProject /\ [][NextProject]_vars

\* everything at once
Next ==
    \/ \E v \in {"read", "write"} : setView(v)
    \/ \E i \in Mounted : ReviewEntry_onEdit(i)
    \/ \E i \in Mounted, t \in TitleInputs : ReviewEntry_setEditTitle(i, t)
    \/ \E i \in Mounted, c \in ContentInputs : ReviewEntry_setEditContent(i, c)
    \/ \E i \in Mounted : ReviewEntry_handleSave(i)
    \/ \E i \in Mounted : ReviewEntry_onClose(i)
    \/ \E i \in Mounted : ReviewEntry_handleDelete(i)
    \/ \E s \in SectionId : WriteView_chooseSection(s)
    \/ WriteView_back
    \/ \E t \in TitleInputs : WriteView_setTitle(t)
    \/ \E c \in ContentInputs : WriteView_setContent(c)
    \/ WriteView_handleSubmit
    \/ \E s \in SectionId : setActiveSection(s)
    \/ \E i \in Mounted : ReviewItem_onEdit(i)
    \/ \E i \in Mounted, t \in TitleInputs : ReviewItem_setEditTitle(i, t)
    \/ \E i \in Mounted, c \in ContentInputs : ReviewItem_setEditContent(i, c)
    \/ \E i \in Mounted : ReviewItem_handleSave(i)
    \/ \E i \in Mounted : ReviewItem_onCancelEdit(i)
    \/ \E i \in Mounted : ReviewItem_handleDelete(i)
    \/ \E t \in TitleInputs : AddReviewCard_setTitle(t)
    \/ \E c \in ContentInputs : AddReviewCard_setContent(c)
    \/ AddReviewCard_handleSubmit
    \/ StoreApply
    \/ StoreReject
    \/ \E w \in ExternalWrites : ExternalChange(w)

Spec == Init /\ [][Next]_vars

TypeOK ==
    /\ layout \in {"minimal", "dashboard"}
    /\ Descending(reviews)
    /\ Cardinality(Ids(reviews)) = Len(reviews)
    /\ Len(pending) <= MaxPending
    /\ nextId \in Nat
    /\ clock \in Nat
    /\ view \in {"read", "write"}
    /\ step \in {"section", "content"}
    /\ selectedSection \in SectionId \cup {NULL}
    /\ activeSection \in SectionId
    /\ Mounted = Displayed(layout, view, activeSection, reviews)

(***************************************************************************)
(* The composer as the two layouts hold it: WriteView keeps its own        *)
(* selected section and stage; AddReviewCard is always at the details      *)
(* stage and files under the prop section={activeSection}.                 *)
(***************************************************************************)
ComposerSection == IF layout = "minimal" THEN selectedSection ELSE activeSection

ComposerStage == IF layout = "minimal" THEN step ELSE "content"

(***************************************************************************)
(* Properties                                                              *)
(***************************************************************************)
LastWrite == pending[Len(pending)]

IssuedOne == Len(pending') = Len(pending) + 1 /\ pending' = Append(pending, pending'[Len(pending')])

\* C1: at most one displayed review is in edit mode, in both layouts, in
\* every state reachable by begin-edit, edit-field, cancel, commit, delete,
\* view / tab selection and snapshot deliveries.
C1_AtMostOneEditing ==
    Cardinality({ i \in Mounted : isEditing(i) }) <= 1

C1_Witness ==
    /\ layout = "dashboard"
    /\ Cardinality(Mounted) >= 2
    /\ \E i \in Mounted : isEditing(i)

\* C2: a begin-edit of review Y done while another review X is in edit mode
\* leaves the edit state at Editing(Y), and X is no longer in edit mode.
C2_LastClickWins ==
    (ev.op = "beginEdit" /\ ev.from # NULL /\ ev.from # ev.id)
        => (Editing = ev.id /\ ~isEditing(ev.from))

C2_Witness ==
    /\ layout = "minimal"
    /\ ev.op = "beginEdit"
    /\ ev.from \in Mounted \ {ev.id}
    /\ Editing = ev.id

\* a valid commit step: the write it issues and the edit state it leaves
C3_CommitStep ==
    (ev'.op = "commit" /\ ~Blank(buf[Editing].editTitle) /\ ~Blank(buf[Editing].editContent))
        => /\ IssuedOne
           /\ pending'[Len(pending')].op = "update"
           /\ pending'[Len(pending')].id = Editing
           /\ pending'[Len(pending')].fields = {"title", "content"}
           /\ pending'[Len(pending')].title = Trim(buf[Editing].editTitle)
           /\ pending'[Len(pending')].content = Trim(buf[Editing].editContent)
           /\ Editing' = NULL
           /\ reviews' = reviews

\* an update of title and content landing on an existing review
C3_WriteFrame ==
    (/\ ev'.op = "applied"
     /\ Head(pending).op = "update"
     /\ Head(pending).fields = {"title", "content"}
     /\ Head(pending).id \in Ids(reviews))
        => /\ Len(reviews') = Len(reviews)
           /\ \A k \in 1..Len(reviews) :
                 IF reviews[k].id = Head(pending).id
                 THEN /\ reviews'[k].id = reviews[k].id
                      /\ reviews'[k].section = reviews[k].section
                      /\ reviews'[k].createdAt = reviews[k].createdAt
                      /\ reviews'[k].title = Head(pending).title
                      /\ reviews'[k].content = Head(pending).content
                 ELSE reviews'[k] = reviews[k]

\* C3: a commit with title and content both non-blank issues exactly one
\* write, an update of the edited review carrying only the trimmed title and
\* the trimmed content, and moves the edit state to Idle; when that write
\* reaches the store, the review keeps its id, section and createdAt and
\* every other review is unchanged.
C3_CommitWritesTitleAndContent == [][C3_CommitStep /\ C3_WriteFrame]_vars

C3_Witness ==
    /\ ev.op = "commit"
    /\ Editing = NULL
    /\ pending # << >>
    /\ LastWrite.op = "update"
    /\ LastWrite.id = ev.id
    /\ ev.id \in Mounted
    /\ LastWrite.title # buf[ev.id].editTitle
    /\ LastWrite.title # Find(reviews, ev.id).title

\* a commit step with a blank buffer
C4_CommitStep ==
    (ev'.op = "commit" /\ (Blank(buf[Editing].editTitle) \/ Blank(buf[Editing].editContent)))
        => /\ pending' = pending
           /\ reviews' = reviews
           /\ Editing' = Editing
           /\ buf' = buf

\* C4: a commit with a blank title or a blank content issues no write,
\* leaves the edit state at Editing(id) and leaves the edit buffer unchanged.
C4_InvalidCommitIsNoOp == [][C4_CommitStep]_vars

C4_Witness ==
    /\ ev.op = "commit"
    /\ ev.id \in Mounted
    /\ Editing = ev.id
    /\ ~Blank(buf[ev.id].editTitle)
    /\ Blank(buf[ev.id].editContent)
    /\ pending = << >>

\* a cancel step, and a begin-edit of the same review right after it
C5_CancelStep ==
    /\ ev'.op = "cancel" =>
          (pending' = pending /\ reviews' = reviews /\ Editing' = NULL)
    /\ (ev.op = "cancel" /\ ev'.op = "beginEdit" /\ ev'.id = ev.id) =>
          buf'[ev.id] = Persisted(reviews', ev.id)

\* C5: cancel issues no write, moves the edit state to Idle and discards the
\* edit buffer: when the same review is put into edit mode right after the
\* cancel, its buffer holds the persisted title and content, not what the
\* buffer held before the cancel.
C5_CancelDiscardsBuffer == [][C5_CancelStep]_vars

\* C6: whenever begin-edit moves the state to Editing(id), the edit buffer
\* holds the title and content review id has in the current snapshot.
C6_BeginEditSeedsBuffer ==
    (ev.op = "beginEdit" /\ ev.id \in Mounted)
        => buf[ev.id] = Persisted(reviews, ev.id)

\* a delete step
C7_DeleteStep ==
    ev'.op = "delete"
        => /\ IssuedOne
           /\ pending'[Len(pending')].op = "delete"
           /\ pending'[Len(pending')].id = ev'.id
           /\ (Editing = ev'.id => Editing' = NULL)
           /\ (Editing # ev'.id => Editing' = Editing)

\* C7: every delete issues exactly one delete write for the review it was
\* clicked on, whichever review is in edit mode; a delete of the review in
\* edit mode moves the edit state to Idle.
C7_DeleteWritesAndCloses == [][C7_DeleteStep]_vars

C7_Witness ==
    /\ ev.op = "delete"
    /\ ev.from = ev.id
    /\ ev.id \in Mounted
    /\ Editing = NULL
    /\ pending # << >>
    /\ LastWrite = DeleteWrite(ev.id)

\* a submit step the guard rejects
C8_SubmitStep ==
    (ev'.op = "submit" /\ (ComposerSection = NULL \/ Blank(title) \/ Blank(content)))
        => /\ pending' = pending
           /\ reviews' = reviews
           /\ nextId' = nextId
           /\ ComposerStage' = ComposerStage
           /\ ComposerSection' = ComposerSection
           /\ title' = title
           /\ content' = content
           /\ view' = view

\* C8: a submit with no section selected, a blank title or a blank content
\* issues no create write and changes no composer state: stage, selected
\* section, title and content are as before.
C8_InvalidSubmitIsNoOp == [][C8_SubmitStep]_vars

C8_Witness ==
    /\ layout = "minimal"
    /\ ev.op = "submit"
    /\ step = "content"
    /\ title # Empty
    /\ Blank(title)
    /\ ~Blank(content)
    /\ pending = << >>

\* a submit the guard lets through, and the create write it issues
C9_Valid == ComposerSection # NULL /\ ~Blank(title) /\ ~Blank(content)

C9_CreateIssued ==
    /\ IssuedOne
    /\ pending'[Len(pending')].op = "update"
    /\ pending'[Len(pending')].fields = {"title", "content", "section", "createdAt"}
    /\ pending'[Len(pending')].id \notin Ids(reviews)
    /\ \A k \in 1..Len(pending) : pending[k].id # pending'[Len(pending')].id
    /\ pending'[Len(pending')].title = Trim(title)
    /\ pending'[Len(pending')].content = Trim(content)
    /\ pending'[Len(pending')].section = ComposerSection
    /\ pending'[Len(pending')].createdAt = clock'
    /\ clock' >= clock
    /\ reviews' = reviews

\* the store gains exactly one review, with the values of the create write
C9_StoreGainsOne ==
    (/\ ev'.op = "applied"
     /\ Head(pending).fields = {"title", "content", "section", "createdAt"})
        => /\ Len(reviews') = Len(reviews) + 1
           /\ Head(pending).id \notin Ids(reviews)
           /\ \A k \in 1..Len(reviews) :
                 \E j \in 1..Len(reviews') : reviews'[j] = reviews[k]
           /\ \E j \in 1..Len(reviews') :
                 reviews'[j] = [id        |-> Head(pending).id,
                                title     |-> Head(pending).title,
                                content   |-> Head(pending).content,
                                section   |-> Head(pending).section,
                                createdAt |-> Head(pending).createdAt]

\* a valid submit clearing section and stage in both layouts
C9_OriginalStep ==
    /\ (ev'.op = "submit" /\ C9_Valid)
          => /\ C9_CreateIssued
             /\ title' = Empty
             /\ content' = Empty
             /\ ComposerSection' = NULL
             /\ ComposerStage' = "section"
    /\ C9_StoreGainsOne

\* C9 as claimed: a valid submit issues exactly one create write under a
\* fresh id with the trimmed title, the trimmed content, the selected
\* section and a timestamp; afterwards title, content and the selected
\* section are cleared and the stage is SelectingSection, in both layouts.
C9_SubmitClearsSectionEverywhere == [][C9_OriginalStep]_vars

\* a valid submit, layout by layout
C9_AmendedStep ==
    /\ (ev'.op = "submit" /\ C9_Valid)
          => /\ C9_CreateIssued
             /\ title' = Empty
             /\ content' = Empty
             /\ layout = "minimal" =>
                   (selectedSection' = NULL /\ step' = "section" /\ view' = "read")
             /\ layout = "dashboard" => activeSection' = activeSection
    /\ C9_StoreGainsOne

\* C9 as amended: a valid submit issues exactly one create write under a
\* fresh id with the trimmed title, the trimmed content, the selected
\* section and a timestamp, and the store gains exactly one review with
\* those values when the write reaches it; afterwards title and content are
\* cleared; in the minimal layout the selected section is cleared too, the
\* stage is SelectingSection and the view is the read view; in the dashboard
\* layout the add form has no section stage and the active tab stays
\* selected.
C9_SubmitCreatesAndClears == [][C9_AmendedStep]_vars

C9_Witness ==
    /\ layout = "dashboard"
    /\ ev.op = "submit"
    /\ pending # << >>
    /\ LastWrite.fields = {"title", "content", "section", "createdAt"}
    /\ LastWrite.section = activeSection
    /\ LastWrite.id \notin Ids(reviews)
    /\ Len(reviews) >= 1
    /\ title = Empty
    /\ content = Empty

\* a back step
C10_BackStep ==
    ev'.op = "back" => (step' = "section" /\ pending' = pending /\ reviews' = reviews)

\* back, then a section choice, with the fields emptied
C10_OriginalStep ==
    /\ C10_BackStep
    /\ (ev.op = "back" /\ ev'.op = "chooseSection") =>
          (title' = Empty /\ content' = Empty)

\* C10 as claimed: back returns the stage to SelectingSection, issues no
\* write and discards the entered title and content: after back followed by
\* choosing a section, the title and content buffers are empty.
C10_BackDiscardsFields == [][C10_OriginalStep]_vars

\* back, then a section choice, with the fields kept
C10_AmendedStep ==
    /\ C10_BackStep
    /\ ev'.op = "back" =>
          (title' = title /\ content' = content /\ selectedSection' = selectedSection)
    /\ (ev.op = "back" /\ ev'.op = "chooseSection") =>
          (title' = title /\ content' = content /\ step' = "content"
           /\ selectedSection' \in SectionId)

\* C10 as amended: back returns the stage to SelectingSection, issues no
\* write and keeps the entered title and content (and the selected section
\* until another is chosen): after back followed by choosing a section, the
\* buffers hold what they held before the back.
C10_BackKeepsFields == [][C10_AmendedStep]_vars

C10_Witness ==
    /\ ev.op = "back"
    /\ step = "section"
    /\ ~Blank(title)
    /\ ~Blank(content)
    /\ selectedSection \in SectionId


(***************************************************************************)
(* Stored texts                                                            *)
(***************************************************************************)
C11_Text(s) == s # << >> /\ ~IsWhitespace(s[1]) /\ ~IsWhitespace(s[Len(s)])

\* C11: after any sequence of composer submits and edit commits, valid or
\* invalid, in either layout, no review in the store has a title or a
\* content that is empty or whitespace-only, and every stored title and
\* content is its own trimmed form (no whitespace at either end)
C11_StoredTextsTrimmed ==
    \A k \in 1..Len(reviews) :
        C11_Text(reviews[k].title) /\ C11_Text(reviews[k].content)

\* two reviews made by submits are stored, and the commit of an edit whose
\* buffer holds an untrimmed title has just settled on one of them
C11_Witness ==
    /\ Len(reviews) = 2
    /\ nextId = MaxIds
    /\ ev.op = "applied"
    /\ ev.id \in Mounted
    /\ Editing = NULL
    /\ buf[ev.id].editTitle = <<" ", "b", " ">>
    /\ Find(reviews, ev.id).title = <<"b">>

(***************************************************************************)
(* Stored sections                                                         *)
(***************************************************************************)
\* C12: after any interleaving of create, update and delete writes reaching
\* the store, every review that exists in the store has a section that is
\* one of growing-instant, planning-wedding, best-shape
C12_SectionsRecognized ==
    \A k \in 1..Len(reviews) : reviews[k].section \in SectionId

(***************************************************************************)
(* The projections                                                         *)
(***************************************************************************)
\* the positions of rs that hold a review of section s
Positions(rs, s) == { k \in 1..Len(rs) : rs[k].section = s }

\* the j-th smallest member of the set of positions P
Nth(P, j) == CHOOSE k \in P : Cardinality({ m \in P : m < k }) = j - 1

\* the sub-sequence of rs with section s, in the relative order of rs
Matching(rs, s) ==
    [j \in 1..Cardinality(Positions(rs, s)) |-> rs[Nth(Positions(rs, s), j)]]

\* C13: for every input sequence of reviews, the grouping-mode projection
\* maps each review to exactly one key, equal to its section; no key of the
\* mapping has an empty list; and the list under each key is exactly the
\* input's sub-sequence with that section, in the input's relative order
C13_GroupingPartitions ==
    LET g == groupedBySection(reviews)
    IN /\ \A k \in 1..Len(reviews) :
             { s \in DOMAIN g : \E j \in 1..Len(g[s]) : g[s][j] = reviews[k] }
                = { reviews[k].section }
       /\ \A s \in DOMAIN g : g[s] # << >> /\ g[s] = Matching(reviews, s)

\* the grouped read view shows three reviews, the first and the last of one
\* section and the one between them of another
C13_Witness ==
    /\ layout = "minimal"
    /\ view = "read"
    /\ ev.op = "snapshot"
    /\ Len(reviews) = 3
    /\ reviews[1].section = reviews[3].section
    /\ reviews[2].section # reviews[1].section
    /\ reviews[2].section \in SectionId
    /\ Mounted = {"1", "2", "3"}

\* C14: for every input sequence of reviews and every selected section id,
\* the filter-mode projection is exactly the input elements whose section
\* is that id, in original relative order (descending by createdAt when the
\* snapshot is), and is the empty sequence when none match
C14_FilterIsSubSequence ==
    \A s \in SectionId :
        /\ sectionReviews(reviews, s) = Matching(reviews, s)
        /\ Descending(reviews) => Descending(sectionReviews(reviews, s))
        /\ Positions(reviews, s) = {} => sectionReviews(reviews, s) = << >>

\* the dashboard lists two reviews of the selected tab, the newer first,
\* out of a snapshot that has a review of another section between them
C14_Witness ==
    /\ layout = "dashboard"
    /\ ev.op = "selectSection"
    /\ Len(reviews) = 3
    /\ reviews[1].section = activeSection
    /\ reviews[3].section = activeSection
    /\ reviews[2].section \in SectionId \ {activeSection}
    /\ reviews[1].createdAt > reviews[3].createdAt
    /\ Mounted = {"1", "3"}

(***************************************************************************)
(* Snapshots delivered while an edit is open                               *)
(***************************************************************************)
C15_SnapshotStep ==
    (/\ ev'.op \in {"snapshot", "applied"}
     /\ Editing # NULL
     /\ Editing \in Mounted
     /\ Editing \in Ids(reviews')
     /\ Persisted(reviews', Editing) # Persisted(reviews, Editing))
    => /\ Editing' = Editing
       /\ Editing \in Mounted'
       /\ buf'[Editing] = buf[Editing]

C15_CommitStep ==
    (/\ ev'.op = "commit"
     /\ Editing # NULL
     /\ Editing \in Mounted
     /\ ev'.id = Editing
     /\ ~Blank(buf[Editing].editTitle)
     /\ ~Blank(buf[Editing].editContent))
    => /\ IssuedOne
       /\ pending'[Len(pending')].id = Editing
       /\ pending'[Len(pending')].title = Trim(buf[Editing].editTitle)
       /\ pending'[Len(pending')].content = Trim(buf[Editing].editContent)

\* C15: while the state is Editing(id), the delivery of a snapshot in which
\* review id has a different persisted title or content leaves the edit
\* buffer and the edit state unchanged, and a valid commit writes the
\* buffered values whatever the snapshot holds
C15_BufferNotLiveUpdated == [][C15_SnapshotStep /\ C15_CommitStep]_vars

\* review id is in edit mode with the title it was opened with in the
\* buffer, and the snapshot just delivered holds another title for it
C15_Witness ==
    /\ ev.op = "snapshot"
    /\ Editing # NULL
    /\ ev.id = Editing
    /\ Editing \in Mounted
    /\ buf[Editing].editTitle = Loaded
    /\ Find(reviews, Editing).title = <<"b">>

(***************************************************************************)
(* The grouped read view                                                   *)
(***************************************************************************)
\* C16: in the grouped (minimal) read view, for every snapshot the rendered
\* section groups are exactly the fixed section ids that have at least one
\* review in the snapshot, and every review of the snapshot appears in
\* exactly one rendered group
C16_GroupsCoverSnapshot ==
    (layout = "minimal" /\ view = "read")
    => /\ RenderedSections(reviews)
            = { s \in SectionId : Positions(reviews, s) # {} }
       /\ \A k \in 1..Len(reviews) :
             Cardinality({ s \in RenderedSections(reviews) :
                             \E j \in 1..Len(groupedBySection(reviews)[s]) :
                                 groupedBySection(reviews)[s][j] = reviews[k] }) = 1

(***************************************************************************)
(* Writes are handed over and forgotten                                    *)
(***************************************************************************)
C17_SubmitStep ==
    (/\ ev'.op = "submit"
     /\ ComposerStage = "content"
     /\ ComposerSection # NULL
     /\ ~Blank(title)
     /\ ~Blank(content))
    => /\ IssuedOne
       /\ "createdAt" \in pending'[Len(pending')].fields
       /\ title' = Empty
       /\ content' = Empty
       /\ reviews' = reviews

C17_FailStep ==
    ev'.op = "rejected"
    => /\ pending' = Tail(pending)
       /\ reviews' = reviews
       /\ title' = title
       /\ content' = content
       /\ nextId' = nextId
       /\ selectedSection' = selectedSection
       /\ step' = step

C17_OnlySubmitWrites == Len(pending') > Len(pending) => ev'.op = "submit"

\* C17: a valid composer submit clears the composer's title and content in
\* the step in which the create write is issued, before the store has it;
\* when that write fails, no write is issued again, the cleared title and
\* content are not restored, and no review is added
C17_FireAndForget == [][C17_SubmitStep /\ C17_FailStep /\ C17_OnlySubmitWrites]_vars

\* the one create write issued so far has failed: the store is empty and
\* the composer's fields are empty
C17_Witness ==
    /\ ev.op = "rejected"
    /\ nextId = 1
    /\ reviews = << >>
    /\ pending = << >>
    /\ title = Empty
    /\ content = Empty

(***************************************************************************)
(* The details stage has a section                                         *)
(***************************************************************************)
\* C18: in the minimal layout's composer, whenever the stage is 'content'
\* the selected section is non-null and one of the fixed sections, after
\* any sequence of choose-section, back, edit-field and submit actions
C18_DetailsStageHasSection ==
    (layout = "minimal" /\ step = "content") => selectedSection \in SectionId

\* the details stage entered a second time, after Back, with the text
\* typed before still in the title
C18_Witness ==
    /\ layout = "minimal"
    /\ view = "write"
    /\ step = "content"
    /\ ev.op = "chooseSection"
    /\ title # Empty
    /\ selectedSection \in SectionId

(***************************************************************************)
(* The review in edit mode and the list on display                         *)
(***************************************************************************)
\* C19: whenever the edit state is Editing(id), review id is present in the
\* list currently displayed (the snapshot in the minimal layout's read view;
\* the snapshot filtered by the active tab in the dashboard layout), after
\* any sequence of begin-edit, tab selection, read/write view toggles,
\* deletes and snapshot deliveries
C19_EditedReviewDisplayed == Editing # NULL => Editing \in Mounted

(***************************************************************************)
(* The ids that writes target                                              *)
(***************************************************************************)
C20_WriteStep ==
    Len(pending') > Len(pending)
    => LET w == pending'[Len(pending')]
       IN IF "createdAt" \in w.fields
          THEN /\ w.op = "update"
               /\ w.id \notin Ids(reviews)
               /\ \A k \in 1..Len(pending) : pending[k].id # w.id
          ELSE /\ w.id \in Ids(reviews)
               /\ w.id \in Displayed(layout, view, activeSection, reviews)

\* C20: every update or delete write issued targets the id of a review in
\* the snapshot displayed at the moment of the user action, and every create
\* write uses a freshly generated id that is not the id of any existing
\* review
C20_WritesTargetShownOrFresh == [][C20_WriteStep]_vars

\* two reviews made by submits are displayed and a delete of one of them
\* has just been issued
C20_Witness ==
    /\ ev.op = "delete"
    /\ nextId = MaxIds
    /\ Len(reviews) = 2
    /\ pending # << >>
    /\ LastWrite.op = "delete"
    /\ LastWrite.id \in Ids(reviews)

(***************************************************************************)
(* The dashboard's add form and the active tab                             *)
(***************************************************************************)
C21_SubmitStep ==
    (/\ layout = "dashboard"
     /\ ev'.op = "submit"
     /\ ~Blank(title)
     /\ ~Blank(content))
    => /\ IssuedOne
       /\ "section" \in pending'[Len(pending')].fields
       /\ pending'[Len(pending')].section = activeSection
       /\ activeSection' = activeSection

C21_TabStep ==
    (layout = "dashboard" /\ ev'.op = "selectSection")
    => title' = title /\ content' = content

\* a review the add form created is stored under the section its create
\* write carried
C21_AppliedStep ==
    (/\ layout = "dashboard"
     /\ ev'.op = "applied"
     /\ "section" \in Head(pending).fields)
    => /\ ev'.id \in Ids(reviews')
       /\ Find(reviews', ev'.id).section = Head(pending).section

\* C21: in the dashboard layout the section of every review created by the
\* add form is the section tab active at the moment of submit, and selecting
\* a tab while title or content is typed keeps the typed title and content
C21_FiledUnderTabAtSubmit == [][C21_SubmitStep /\ C21_TabStep /\ C21_AppliedStep]_vars

\* a tab other than the first has just been selected with a title and a
\* content typed into the add form
C21_Witness ==
    /\ layout = "dashboard"
    /\ ev.op = "selectSection"
    /\ activeSection # SECTIONS[1]
    /\ ~Blank(title)
    /\ ~Blank(content)
    /\ reviews = << >>
    /\ nextId = 0

====
